---- MODULE Spec2Model ----
(***************************************************************************)
(* A model of broccoli-scss-lint: the ScssLinter filter of lib/index.js    *)
(* (the sass-lint library backend), the older ScssLinter of index.js (the  *)
(* scss-lint command-line backend) and the test generators of              *)
(* dist/test-generators.js, driven by the host filter's build pass.        *)
(*                                                                         *)
(* A JavaScript string is a sequence of one-character strings, so that     *)
(* concatenation, slicing and glob matching are computed and not assumed.  *)
(* Object keys and the literals of JSON are single tokens.  The alphabet   *)
(* of paths and patterns has no '!', '#', '{', '[' or '(' : the model of   *)
(* minimatch covers literals, '?', '*' and '**'.                           *)
(***************************************************************************)
EXTENDS Integers, Sequences, FiniteSets, TLC

(***************************************************************************)
(* Bounds of the model.                                                    *)
(***************************************************************************)
MaxPasses == 2
MaxFiles == 2

(***************************************************************************)
(* JavaScript values.  Every value is a record of the same three fields:   *)
(* its type tag, its text (strings, numbers, booleans, function source)    *)
(* and its children (array items, or the [k, v] entries of an object in    *)
(* insertion order).                                                       *)
(***************************************************************************)
Undefined == [t |-> "undefined", s |-> <<>>, kids |-> <<>>]
Null == [t |-> "null", s |-> <<>>, kids |-> <<>>]
Str(cs) == [t |-> "string", s |-> cs, kids |-> <<>>]
Num(tok) == [t |-> "number", s |-> <<tok>>, kids |-> <<>>]
Bool(b) == [t |-> "boolean", s |-> <<IF b THEN "true" ELSE "false">>, kids |-> <<>>]
Fn(src) == [t |-> "function", s |-> src, kids |-> <<>>]
Arr(items) == [t |-> "array", s |-> <<>>, kids |-> items]
Obj(entries) == [t |-> "object", s |-> <<>>, kids |-> entries]
KV(key, val) == [k |-> key, v |-> val]

\* typeof v
TypeOf(v) == IF v.t \in {"null", "array", "object"} THEN "object" ELSE v.t

\* ToBoolean(v)
Truthy(v) ==
  CASE v.t \in {"undefined", "null"} -> FALSE
    [] v.t = "boolean" -> v.s = <<"true">>
    [] v.t = "number" -> v.s # <<"0">>
    [] v.t = "string" -> v.s # <<>>
    [] OTHER -> TRUE

\* Object.keys(o), in insertion order
Keys(o) == [i \in 1..Len(o.kids) |-> o.kids[i].k]

HasKey(o, key) == \E i \in 1..Len(o.kids) : o.kids[i].k = key

\* o[key]: undefined when the key is absent
Get(o, key) ==
  IF o.t = "object" /\ HasKey(o, key)
  THEN o.kids[CHOOSE i \in 1..Len(o.kids) : o.kids[i].k = key].v
  ELSE Undefined

\* o[key] = val: an existing key keeps its place, a new key is appended
Put(o, key, val) ==
  IF HasKey(o, key)
  THEN Obj([i \in 1..Len(o.kids) |->
              IF o.kids[i].k = key THEN KV(key, val) ELSE o.kids[i]])
  ELSE Obj(Append(o.kids, KV(key, val)))

\* delete o[key]
Delete(o, key) == Obj(SelectSeq(o.kids, LAMBDA e : e.k # key))

(***************************************************************************)
(* Strings.                                                                *)
(***************************************************************************)
RECURSIVE Concat(_)
Concat(parts) ==
  IF parts = <<>> THEN <<>> ELSE Head(parts) \o Concat(Tail(parts))

\* parts.join(sep)
RECURSIVE Join(_, _)
Join(parts, sep) ==
  IF parts = <<>> THEN <<>>
  ELSE IF Len(parts) = 1 THEN parts[1]
  ELSE parts[1] \o sep \o Join(Tail(parts), sep)

\* s.slice(from) for 1-based from
Drop(s, n) == SubSeq(s, n + 1, Len(s))

EndsWith(s, suffix) ==
  Len(s) >= Len(suffix) /\ Drop(s, Len(s) - Len(suffix)) = suffix

(***************************************************************************)
(* json-stable-stringify, as cacheKeyProcessString calls it.               *)
(***************************************************************************)
\* Every object key of the model, in the order of Array.prototype.sort
\* (by UTF-16 code unit).
KeyOrder ==
  <<"bundleExec", "cb", "config", "disableTestGenerator", "files", "ignore",
    "include", "testGenerator">>

Rank(key) == CHOOSE i \in 1..Len(KeyOrder) : KeyOrder[i] = key

RECURSIVE SortKeys(_)
SortKeys(S) ==
  IF S = {} THEN <<>>
  ELSE LET m == CHOOSE x \in S : \A y \in S : Rank(x) <= Rank(y)
       IN <<m>> \o SortKeys(S \ {m})

\* objectKeys(node).sort()
SortedKeys(o) == SortKeys({o.kids[i].k : i \in 1..Len(o.kids)})

\* The text of a JSON string literal: quotes, backslashes and newlines
\* escaped.
JsonEscapeChar(c) ==
  CASE c = "\"" -> <<"\\", "\"">>
    [] c = "\\" -> <<"\\", "\\">>
    [] c = "\n" -> <<"\\", "n">>
    [] OTHER -> <<c>>

JsonQuote(cs) ==
  <<"\"">> \o Concat([i \in 1..Len(cs) |-> JsonEscapeChar(cs[i])]) \o <<"\"">>

\* A replacer that writes every function as the same word.
FunctionTag(value) ==
  IF value.t = "function" THEN Str(<<"[Function]">>) ELSE value

\* The replacer of cacheKeyProcessString: a function becomes its source.
FunctionStringifier(value) ==
  IF value.t = "function" THEN Str(value.s) ELSE value

\* replacer.call(parent, key, node); without a replacer option the value
\* itself.
Replace(replacer, value) ==
  IF replacer = "functionStringifier" THEN FunctionStringifier(value) ELSE value

\* The keys of an object in the order stringify writes them.
KeysToWrite(sorted, o) == IF sorted THEN SortedKeys(o) ELSE Keys(o)

\* The JSON text of a node as a string value, or undefined.  An entry whose value has no
\* JSON text is skipped, and such an array item is written null.
RECURSIVE Stringify(_, _, _)
Stringify(nodeIn, replacer, sorted) ==
  LET node == Replace(replacer, nodeIn) IN
  CASE node.t \in {"undefined", "function"} -> Undefined
    [] node.t = "null" -> Str(<<"null">>)
    [] node.t \in {"number", "boolean"} -> Str(node.s)
    [] node.t = "string" -> Str(JsonQuote(node.s))
    [] node.t = "array" ->
         LET item(i) ==
               LET x == Stringify(node.kids[i], replacer, sorted)
               IN IF x.t = "undefined" THEN <<"null">> ELSE x.s
         IN Str(<<"[">> \o Join([i \in 1..Len(node.kids) |-> item(i)], <<",">>)
                \o <<"]">>)
    [] node.t = "object" ->
         LET keys == KeysToWrite(sorted, node)
             text(i) == Stringify(Get(node, keys[i]), replacer, sorted)
             kept == SelectSeq([i \in 1..Len(keys) |-> i],
                               LAMBDA i : text(i).t # "undefined")
             out == [j \in 1..Len(kept) |->
                       <<"\"", keys[kept[j]], "\"", ":">> \o text(kept[j]).s]
         IN Str(<<"{">> \o Join(out, <<",">>) \o <<"}">>)

\* stringify(node, {replacer}) of json-stable-stringify.
StableStringify(node, replacer) == Stringify(node, replacer, TRUE)

\* JSON.stringify(node, replacer): keys in insertion order.
JsonStringify(node, replacer) == Stringify(node, replacer, FALSE)

\* md5Hex(input) for an array input: every element is fed to the same hash
\* in turn, so the digest is that of the concatenation.  MD5 itself is
\* taken to be injective on the bytes it is given.
Md5Hex(input) == [md5 |-> Concat(input)]

(***************************************************************************)
(* sass-lint's getConfig: the rule-config the engine resolves from disk    *)
(* (its defaults and the config file), with the options merged over it.    *)
(***************************************************************************)
RECURSIVE MergeRecursive(_, _)
MergeRecursive(base, ext) ==
  IF ext.kids = <<>> THEN base
  ELSE LET e == Head(ext.kids)
           old == Get(base, e.k)
           val == IF old.t = "object" /\ e.v.t = "object"
                  THEN MergeRecursive(old, e.v)
                  ELSE e.v
       IN MergeRecursive(Put(base, e.k, val), Obj(Tail(ext.kids)))

\* this.getConfig() = linter.getConfig(this.options, this.config)
GetConfig(opts, onDisk) == MergeRecursive(onDisk, opts)

\* A cache key over JSON.stringify, which writes keys in insertion order.
CacheKeyInsertionOrder(content, relativePath, opts, resolved) ==
  Md5Hex(<<content,
           relativePath,
           JsonStringify(opts, "functionStringifier").s,
           JsonStringify(resolved, "none").s>>)

\* cacheKeyProcessString(content, relativePath) of lib/index.js, given
\* this.options and what this.getConfig() returns.
LibCacheKeyProcessString(content, relativePath, opts, resolved) ==
  Md5Hex(<<content,
           relativePath,
           StableStringify(opts, "functionStringifier").s,
           StableStringify(resolved, "none").s>>)

(***************************************************************************)
(* The outcome of a call: a returned value or a thrown error.              *)
(***************************************************************************)
NoError == [name |-> "", message |-> <<>>]
Return(val) == [threw |-> FALSE, error |-> NoError, value |-> val]
Throw(errName, msg) ==
  [threw |-> TRUE, error |-> [name |-> errName, message |-> msg],
   value |-> Undefined]

(***************************************************************************)
(* minimatch(path, pattern) with its default options.                      *)
(***************************************************************************)
\* s.split(sep)
RECURSIVE SplitOn(_, _)
SplitOn(s, sep) ==
  IF \A i \in 1..Len(s) : s[i] # sep THEN <<s>>
  ELSE LET i == CHOOSE i \in 1..Len(s) :
                  s[i] = sep /\ \A j \in 1..(i - 1) : s[j] # sep
       IN <<SubSeq(s, 1, i - 1)>> \o SplitOn(Drop(s, i), sep)

HasMagic(p) == \E i \in 1..Len(p) : p[i] \in {"*", "?"}

\* One path part against one pattern part: '*' is any run of characters,
\* '?' any one character.
RECURSIVE GlobPart(_, _)
GlobPart(f, p) ==
  IF p = <<>> THEN f = <<>>
  ELSE IF Head(p) = "*"
       THEN \E n \in 0..Len(f) : GlobPart(Drop(f, n), Tail(p))
       ELSE /\ f # <<>>
            /\ Head(p) = "?" \/ Head(p) = Head(f)
            /\ GlobPart(Tail(f), Tail(p))

\* A part without magic is compared as a string.  A part with magic matches
\* no empty part, and no part starting with a dot unless the pattern part
\* starts with a dot itself.
MatchPart(f, p) ==
  IF ~HasMagic(p) THEN f = p
  ELSE /\ f # <<>>
       /\ f[1] = "." => p[1] = "."
       /\ GlobPart(f, p)

GlobStar == <<"*", "*">>

DotPart(f) == f # <<>> /\ f[1] = "."

\* Minimatch.matchOne(file, pattern) on the parts of the path and of the
\* pattern.  A '**' part swallows any number of parts that do not start
\* with a dot; it is only reached with a path part left to look at.
RECURSIVE MatchOne(_, _)
MatchOne(file, pattern) ==
  IF file = <<>> THEN pattern = <<>>
  ELSE IF pattern = <<>> THEN Len(file) = 1 /\ file[1] = <<>>
  ELSE IF Head(pattern) = GlobStar
       THEN IF Len(pattern) = 1
            THEN \A i \in 1..Len(file) : ~DotPart(file[i])
            ELSE \E n \in 0..(Len(file) - 1) :
                   /\ \A i \in 1..n : ~DotPart(file[i])
                   /\ MatchOne(Drop(file, n), Tail(pattern))
       ELSE /\ MatchPart(Head(file), Head(pattern))
            /\ MatchOne(Tail(file), Tail(pattern))

\* minimatch(p, pattern) for a string pattern: an empty pattern matches
\* the empty path only.
Minimatch(p, pattern) ==
  IF pattern = <<>> THEN p = <<>>
  ELSE MatchOne(SplitOn(p, "/"), SplitOn(pattern, "/"))

(***************************************************************************)
(* shouldIgnore and getDestFilePath of lib/index.js.                       *)
(***************************************************************************)
\* The for-of loop of shouldIgnore: the first match returns true; minimatch
\* throws a TypeError on a pattern that is no string.
RECURSIVE IgnoreLoop(_, _)
IgnoreLoop(relativePath, patterns) ==
  IF patterns = <<>> THEN Return(Bool(FALSE))
  ELSE IF Head(patterns).t # "string"
       THEN Throw("TypeError", <<"glob pattern string required">>)
  ELSE IF Minimatch(relativePath, Head(patterns).s) THEN Return(Bool(TRUE))
  ELSE IgnoreLoop(relativePath, Tail(patterns))

\* shouldIgnore(relativePath), given what this.getConfig() returns.
\* Destructuring undefined or null throws a TypeError.
ShouldIgnore(relativePath, resolved) ==
  LET files == Get(resolved, "files")
      ignore == Get(files, "ignore")
  IN IF files.t \in {"undefined", "null"}
     THEN Throw("TypeError", <<"Cannot destructure property 'ignore'">>)
     ELSE IF TypeOf(ignore) = "string"
          THEN Return(Bool(Minimatch(relativePath, ignore.s)))
     ELSE IF ignore.t = "array" /\ Len(ignore.kids) > 0
          THEN IgnoreLoop(relativePath, ignore.kids)
     ELSE Return(Bool(FALSE))

\* ScssLinter.prototype.extensions
Extensions == <<(<<"s", "a", "s", "s">>), (<<"s", "c", "s", "s">>)>>

\* ScssLinter.prototype.targetExtension of lib/index.js and of index.js
LibTargetExtension == <<"s", "c", "s", "s">>
CliTargetExtension == <<"l", "i", "n", "t", ".", "s", "c", "s", "s">>

\* The targetExtension the constructor sets when a test generator is active.
TestTargetExtension == <<"sass-lint-test.js">>

\* Filter.prototype.getDestFilePath of the host filter: the path with the
\* first matching extension replaced by targetExtension, or null when no
\* extension matches.
RECURSIVE FilterGetDestFilePath(_, _, _)
FilterGetDestFilePath(relativePath, extensions, targetExtension) ==
  IF extensions = <<>> THEN Null
  ELSE LET ext == Head(extensions) IN
       IF EndsWith(relativePath, <<".">> \o ext)
       THEN Str(SubSeq(relativePath, 1, Len(relativePath) - Len(ext))
                \o targetExtension)
       ELSE FilterGetDestFilePath(relativePath, Tail(extensions),
                                  targetExtension)

\* A getDestFilePath that asks the host's rule only.
GetDestFilePathUnfiltered(relativePath, resolved, targetExtension) ==
  Return(FilterGetDestFilePath(relativePath, Extensions, targetExtension))

\* getDestFilePath(relativePath) of lib/index.js
LibGetDestFilePath(relativePath, resolved, targetExtension) ==
  LET ignored == ShouldIgnore(relativePath, resolved) IN
  IF ignored.threw THEN ignored
  ELSE IF ignored.value = Bool(TRUE) THEN Return(Null)
  ELSE Return(FilterGetDestFilePath(relativePath, Extensions, targetExtension))

(***************************************************************************)
(* dist/test-generators.js, as require('./test-generators') evaluates it.  *)
(***************************************************************************)
\* The identifiers the module declares.
TestGeneratorsScope ==
  {"jsStringEscape", "render", "testGenerator", "qunitString", "mochaString",
   "qunit", "mocha"}

\* The object literal assigned to module.exports: each key with the
\* identifier its value is read from.
TestGeneratorsExports ==
  <<[k |-> "quint", ref |-> "quint"], [k |-> "mocha", ref |-> "mocha"]>>

\* Evaluating the module: reading an identifier that is not declared throws
\* a ReferenceError, and the module has no exports then.
RequireTestGenerators ==
  LET ex == TestGeneratorsExports
      bad == {i \in 1..Len(ex) : ex[i].ref \notin TestGeneratorsScope}
  IN IF bad # {}
     THEN Throw("ReferenceError",
                <<ex[CHOOSE i \in bad : \A j \in bad : i <= j].ref,
                  " is not defined">>)
     ELSE Return(Obj([i \in 1..Len(ex) |-> KV(ex[i].k, Fn(<<ex[i].ref>>))]))

(***************************************************************************)
(* The constructors.  An instance is the record of its own properties:     *)
(* this.options is kept apart, in the variable options.                    *)
(***************************************************************************)
\* Filter.call(this, inputNode, ...) of the host filter: it takes a tree,
\* and may reject anything else with a TypeError.
FilterCallOutcomes(inputNode) ==
  IF inputNode.t = "object"
  THEN {Return(Undefined)}
  ELSE {Return(Undefined), Throw("TypeError", <<"Expected Broccoli node">>)}

\* String(v) as a template literal writes it.
ToStr(v) ==
  CASE v.t = "undefined" -> <<"undefined">>
    [] v.t = "null" -> <<"null">>
    [] v.t = "array" -> <<"[array]">>
    [] v.t = "object" -> <<"[object Object]">>
    [] OTHER -> v.s

\* this[name]: an own property, else the prototype's.
Prop(own, proto, name) ==
  IF HasKey(own, name) THEN Get(own, name) ELSE Get(proto, name)

\* What ScssLinter.prototype gives every instance of lib/index.js.
LibPrototype == Obj(<<KV("targetExtension", Str(LibTargetExtension))>>)

\* What ScssLinter.prototype gives every instance of index.js.
CliPrototype ==
  Obj(<<KV("targetExtension", Str(CliTargetExtension)),
        KV("testGenerator", Fn(<<"ScssLinter.prototype.testGenerator">>))>>)

NoInstance == [state |-> "none", error |-> NoError, own |-> Obj(<<>>)]
Instance(ownProps) == [state |-> "ok", error |-> NoError, own |-> ownProps]
Failed(outcome) == [state |-> "threw", error |-> outcome.error, own |-> Obj(<<>>)]

\* for (const key of Object.keys(this.options)) this[key] = this.options[key]
CopyOptions(opts) == Obj(opts.kids)

\* The test generator part of the constructor of lib/index.js, on the own
\* properties copied from the options.
ResolveTestGenerator(own) ==
  LET named == Prop(own, LibPrototype, "testGenerator")
      loaded == RequireTestGenerators
      found == Get(loaded.value, named.s[1])
      own1 == IF TypeOf(named) = "string"
              THEN Put(own, "testGenerator", found)
              ELSE own
      generator == Prop(own1, LibPrototype, "testGenerator")
  IN IF TypeOf(named) = "string" /\ loaded.threw
     THEN Failed(loaded)
     ELSE IF TypeOf(named) = "string" /\ ~Truthy(generator)
     THEN Failed(Throw("Error", <<"Could not find '", ToStr(generator)[1],
                                  "' test generator.">>))
     ELSE IF Truthy(generator)
     THEN Instance(Put(own1, "targetExtension", Str(TestTargetExtension)))
     ELSE Instance(own1)

\* new ScssLinter(inputNode, options) of lib/index.js: every instance, or
\* failure, the call can end in.
LibConstruct(inputNode, opts) ==
  IF TypeOf(inputNode) = "undefined" \/ TypeOf(inputNode) # "object"
  THEN {Failed(Throw("Error", <<"Invalid input node.">>))}
  ELSE {IF h.threw THEN Failed(h) ELSE ResolveTestGenerator(CopyOptions(opts)) :
          h \in FilterCallOutcomes(inputNode)}

\* new ScssLinter(inputNode, options) of index.js
CliConstruct(inputNode, opts) ==
  {IF h.threw THEN Failed(h) ELSE Instance(CopyOptions(opts)) :
     h \in FilterCallOutcomes(inputNode)}

(***************************************************************************)
(* The lint engines.  An engine is a function of the text it is given; the *)
(* contents of the model are chosen so that every kind of outcome occurs.  *)
(***************************************************************************)
ContentClean == <<"x">>
ContentError == <<"x", "a">>
ContentWarning == <<"w">>
ContentNoMessages == <<"m">>
ContentCrash == <<"t">>

LintMessage(sev, text) ==
  Obj(<<KV("ruleId", Str(<<"r">>)), KV("line", Num("1")), KV("column", Num("2")),
        KV("message", Str(text)), KV("severity", Num(sev))>>)

LintReport(filename, warnings, errs, msgs) ==
  Obj(<<KV("filePath", Str(filename)), KV("warningCount", Num(warnings)),
        KV("errorCount", Num(errs)), KV("messages", msgs)>>)

\* path.extname(relativePath).replace('.', ''): the text after the last dot
\* of the last part of the path, unless that dot starts the part.
ExtName(relativePath) ==
  LET parts == SplitOn(relativePath, "/")
      base == parts[Len(parts)]
      dots == {i \in 2..Len(base) : base[i] = "."}
  IN IF dots = {} THEN <<>>
     ELSE Drop(base, CHOOSE i \in dots : \A j \in dots : j <= i)

\* linter.lintText({text, format, filename}, this.options, this.config) of
\* sass-lint: a report, or the engine's own exception.
LintText(file, opts, config) ==
  CASE file.text = ContentClean ->
         Return(LintReport(file.filename, "0", "0", Arr(<<>>)))
    [] file.text = ContentError ->
         Return(LintReport(file.filename, "0", "1",
                           Arr(<<LintMessage("2", <<"b", "a", "d">>)>>)))
    [] file.text = ContentWarning ->
         Return(LintReport(file.filename, "1", "0",
                           Arr(<<LintMessage("1", <<"o", "d", "d">>)>>)))
    [] file.text = ContentNoMessages ->
         Return(Obj(<<KV("filePath", Str(file.filename)),
                      KV("warningCount", Num("0")), KV("errorCount", Num("1"))>>))
    [] OTHER -> Throw("Error", <<"Parsing error">>)

\* lintText(content, relativePath) of lib/index.js
LibLintText(content, relativePath, opts, config) ==
  LintText([text |-> content, format |-> ExtName(relativePath),
            filename |-> relativePath], opts, config)

\* Calling a value: a function the user supplied as test generator returns
\* a string of its own making; calling anything else throws.
CallTestGenerator(fn, relativePath, messages, report) ==
  IF fn.t # "function"
  THEN Throw("TypeError", <<"this.testGenerator is not a function">>)
  ELSE Return(Str(fn.s \o <<"(">> \o relativePath \o <<",">>
                  \o Get(report, "errorCount").s \o <<")">>))

\* A processString that calls the generator whatever report.messages is.
ProcessStringAlwaysGenerates(content, relativePath, own, opts) ==
  LET lint == LintText([text |-> content, format |-> ExtName(relativePath),
                        filename |-> relativePath], opts,
                       Prop(own, LibPrototype, "config"))
      generator == Prop(own, LibPrototype, "testGenerator")
      stub == CallTestGenerator(generator, relativePath,
                                Get(lint.value, "messages"), lint.value)
  IN IF lint.threw THEN lint
     ELSE IF Truthy(generator)
     THEN IF stub.threw THEN stub
          ELSE Return(Obj(<<KV("report", lint.value), KV("output", stub.value)>>))
     ELSE Return(Obj(<<KV("report", lint.value), KV("output", Str(content))>>))

\* A processString that takes an exception of the engine for a report
\* without findings.
ProcessStringSwallows(content, relativePath, own, opts) ==
  LET lint == LintText([text |-> content, format |-> ExtName(relativePath),
                        filename |-> relativePath], opts,
                       Prop(own, LibPrototype, "config"))
      report == IF lint.threw
                THEN LintReport(relativePath, "0", "0", Arr(<<>>))
                ELSE lint.value
  IN Return(Obj(<<KV("report", report), KV("output", Str(content))>>))

\* processString(content, relativePath) of lib/index.js
LibProcessString(content, relativePath, own, opts) ==
  LET lint == LibLintText(content, relativePath, opts, Prop(own, LibPrototype, "config"))
      report == lint.value
      generator == Prop(own, LibPrototype, "testGenerator")
      cacheObject == Obj(<<KV("report", report), KV("output", Str(content))>>)
      stub == CallTestGenerator(generator, relativePath,
                                Get(report, "messages"), report)
  IN IF lint.threw THEN lint
     ELSE IF Truthy(generator) /\ Get(report, "messages").t = "array"
     THEN IF stub.threw THEN stub
          ELSE Return(Put(cacheObject, "output", stub.value))
     ELSE Return(cacheObject)

\* A postProcess that looks at errorCount only.
PostProcessErrorsOnly(result) ==
  [reported |-> IF Truthy(Get(Get(result, "report"), "errorCount"))
                THEN <<Arr(<<Get(result, "report")>>)>>
                ELSE <<>>,
   value |-> Obj(<<KV("output", Get(result, "output"))>>)]

\* A postProcess that hands nothing to outputResults.
PostProcessSilent(result) ==
  [reported |-> <<>>, value |-> Obj(<<KV("output", Get(result, "output"))>>)]

\* postProcess({report, output}) of lib/index.js: the reports it hands to
\* outputResults (none, or one call with [report]) and what it returns.
LibPostProcess(result) ==
  LET report == Get(result, "report")
      output == Get(result, "output")
  IN [reported |-> IF Truthy(Get(report, "errorCount"))
                      \/ Truthy(Get(report, "warningCount"))
                   THEN <<Arr(<<report>>)>>
                   ELSE <<>>,
      value |-> Obj(<<KV("output", output)>>)]

\* A cache that stores a result without its report.
CloneWithoutReport(v) == Obj(SelectSeq(v.kids, LAMBDA e : e.k # "report"))

\* JSON.parse(JSON.stringify(v)): what the host's persistent cache gives
\* back for a value it stored.
RECURSIVE JsonClone(_)
JsonClone(v) ==
  CASE v.t = "array" ->
         Arr([i \in 1..Len(v.kids) |->
                IF v.kids[i].t \in {"undefined", "function"}
                THEN Null ELSE JsonClone(v.kids[i])])
    [] v.t = "object" ->
         LET kept == SelectSeq(v.kids,
                               LAMBDA e : e.v.t \notin {"undefined", "function"})
         IN Obj([i \in 1..Len(kept) |-> KV(kept[i].k, JsonClone(kept[i].v))])
    [] OTHER -> v

(***************************************************************************)
(* index.js: the scss-lint command-line backend.                           *)
(***************************************************************************)
\* this.inputPaths[0]
InputDir == <<"/", "i">>

\* _buildCommand(absolutePath, options): the command, and the options
\* object as the call leaves it.
BuildCommand(absolutePath, opts) ==
  LET start == IF Truthy(Get(opts, "bundleExec"))
               THEN <<(<<"bundle">>), (<<"exec">>), (<<"scss-lint">>), absolutePath>>
               ELSE <<(<<"scss-lint">>), absolutePath>>
      left == Delete(opts, "bundleExec")
      flag(i) == <<(<<"--", left.kids[i].k>>), ToStr(left.kids[i].v)>>
      flags == Concat([i \in 1..Len(left.kids) |-> flag(i)])
  IN [command |-> Join(start \o flags, <<" ">>), options |-> left]

\* shell.exec(command, {silent: true}): scss-lint's exit code and output
\* for the file the command names.
ShellExec(command, absolutePath, content) ==
  CASE content = ContentClean -> [code |-> 0, stdout |-> <<>>]
    [] content = ContentError ->
         [code |-> 2, stdout |-> absolutePath \o <<":", "1", " ", "[E]", " ", "b">>]
    [] content = ContentWarning ->
         [code |-> 1, stdout |-> absolutePath \o <<":", "1", " ", "[W]", " ", "o">>]
    [] content = ContentNoMessages -> [code |-> 0, stdout |-> <<"n", "o", "t", "e">>]
    [] OTHER -> [code |-> 127, stdout |-> <<>>]

\* s.indexOf(sub), 0-based, -1 when absent
IndexOf(s, sub) ==
  LET at == {i \in 0..(Len(s) - Len(sub)) : SubSeq(s, i + 1, i + Len(sub)) = sub}
  IN IF at = {} THEN -1 ELSE CHOOSE i \in at : \A j \in at : i <= j

\* s.substring(from): a negative from is taken as 0
Substring(s, from) == Drop(s, IF from < 0 THEN 0 ELSE from)

\* path.dirname(relativePath)
Dirname(relativePath) ==
  LET slashes == {i \in 1..Len(relativePath) : relativePath[i] = "/"}
  IN IF slashes = {} THEN <<".">>
     ELSE SubSeq(relativePath, 1, (CHOOSE i \in slashes : \A j \in slashes : j <= i) - 1)

\* js-string-escape: the text of a JavaScript string literal
JsStringEscapeChar(c) ==
  CASE c \in {"\"", "'", "\\"} -> <<"\\", c>>
    [] c = "\n" -> <<"\\", "n">>
    [] c = "\r" -> <<"\\", "r">>
    [] OTHER -> <<c>>

JsStringEscape(cs) == Concat([i \in 1..Len(cs) |-> JsStringEscapeChar(cs[i])])

\* ScssLinter.prototype.testGenerator(relativePath, passed, errors) of
\* index.js.  In a generated source every quote, backslash and line break
\* is a character of its own.
CliTestGenerator(relativePath, passed, errs) ==
  LET tail == IF errs # <<>> THEN <<"\\", "n">> \o JsStringEscape(errs) ELSE <<>>
  IN <<"QUnit.module(", "'", "JSHint - ">> \o Dirname(relativePath)
     \o <<"'", ");", "\n">>
     \o <<"QUnit.test(", "'">> \o relativePath
     \o <<" should pass jshint", "'", ", function(assert) { ", "\n">>
     \o <<"  assert.expect(1);", "\n">>
     \o <<"  assert.ok(", IF passed THEN "true" ELSE "false", ", ", "'">>
     \o relativePath \o <<" should pass jshint.">> \o tail
     \o <<"'", "); ", "\n">>
     \o <<"});", "\n">>

(***************************************************************************)
(* dist/test-generators.js: the functions of the module.                   *)
(***************************************************************************)
\* render(errors): a line for every message, joined by line breaks.
Render(errs) ==
  Join([n \in 1..Len(errs) |->
          ToStr(Get(errs[n], "line")) \o <<":">> \o ToStr(Get(errs[n], "column"))
          \o <<" ", "-", " ">> \o ToStr(Get(errs[n], "message"))
          \o <<" ", "(">> \o ToStr(Get(errs[n], "ruleId")) \o <<")">>],
       <<"\n">>)

\* A generator that takes every file to have passed.
PassedAlways(results) == TRUE

\* passed = !results.errorCount || results.errorCount.length === 0
GeneratorPassed(results) ==
  LET errorCount == Get(results, "errorCount")
  IN \/ ~Truthy(errorCount)
     \/ errorCount.t = "array" /\ errorCount.kids = <<>>

\* messages, as the function that testGenerator returns builds it
GeneratorMessages(relativePath, results) ==
  relativePath \o <<" should pass sass-lint">>
  \o (IF Truthy(Get(results, "messages"))
      THEN <<"\n", "\n">> \o Render(Get(results, "messages").kids)
      ELSE <<>>)

\* qunitString(relativePath, passed, messages)
QunitString(relativePath, passed, messages) ==
  <<"QUnit.module(", "'", "SCSS Lint | ">> \o JsStringEscape(relativePath)
  \o <<"'", ");", "\n">>
  \o <<"QUnit.test(", "'", "should pass sass-lint", "'", ", function(assert) {", "\n">>
  \o <<"  assert.expect(1);", "\n">>
  \o <<"  assert.ok(", IF passed THEN "true" ELSE "false", ", ", "'">>
  \o JsStringEscape(messages) \o <<"'", ");", "\n">>
  \o <<"});", "\n">>

\* mochaString(relativePath, passed, messages)
MochaString(relativePath, passed, messages) ==
  <<"describe(", "'", "SCSS Lint | ">> \o JsStringEscape(relativePath)
  \o <<"'", ", function() {", "\n">>
  \o <<"  it(", "'", "should pass sass-lint", "'", ", function() {", "\n">>
  \o (IF passed
      THEN <<"    // SCSS Lint passed", "\n">>
      ELSE <<"    // SCSS Lint failed", "\n">>
           \o <<"    var error = new chai.AssertionError(", "'">>
           \o JsStringEscape(messages) \o <<"'", ");", "\n">>
           \o <<"    error.stack = undefined;", "\n">>
           \o <<"    throw error;", "\n">>)
  \o <<"  });", "\n">>
  \o <<"});", "\n">>

\* testGenerator(callback)(relativePath, errors, results)
TestGenerator(callback, relativePath, errs, results) ==
  LET passed == GeneratorPassed(results)
      messages == GeneratorMessages(relativePath, results)
  IN IF callback = "qunitString"
     THEN QunitString(relativePath, passed, messages)
     ELSE MochaString(relativePath, passed, messages)

\* A processString that takes every exit code but 0 for fatal.
ProcessStringAnyCodeFatal(content, relativePath, own, opts) ==
  LET absolutePath == InputDir \o <<"/">> \o relativePath
      built == BuildCommand(absolutePath, opts)
      result == ShellExec(built.command, absolutePath, content)
      passed == Len(result.stdout) <= 0
      found == Substring(result.stdout, IndexOf(result.stdout, relativePath))
      output(errs) == IF ~Truthy(Prop(own, CliPrototype, "disableTestGenerator"))
                      THEN CliTestGenerator(relativePath, passed, errs)
                      ELSE <<>>
      value(errs) == Obj(<<KV("output", Str(output(errs))), KV("passed", Bool(passed)),
                           KV("errors", Str(errs))>>)
  IN [outcome |-> IF result.code # 0
                  THEN Throw("Error", <<"There are errors in your SCSS files">>)
                  ELSE Return(CHOOSE v \in {value(errs) : errs \in {found}} : TRUE),
      command |-> built.command,
      options |-> built.options]

\* processString(content, relativePath) of index.js: the outcome, the
\* command it ran and the options object as it leaves it.
CliProcessString(content, relativePath, own, opts) ==
  LET absolutePath == InputDir \o <<"/">> \o relativePath
      built == BuildCommand(absolutePath, opts)
      result == ShellExec(built.command, absolutePath, content)
      passed == Len(result.stdout) <= 0
      found == Substring(result.stdout, IndexOf(result.stdout, relativePath))
      output(errs) == IF ~Truthy(Prop(own, CliPrototype, "disableTestGenerator"))
                      THEN CliTestGenerator(relativePath, passed, errs)
                      ELSE <<>>
      value(errs) == Obj(<<KV("output", Str(output(errs))), KV("passed", Bool(passed)),
                           KV("errors", Str(errs))>>)
  IN [outcome |-> IF result.code = 2
                  THEN Throw("Error", <<"There are errors in your SCSS files">>)
                  ELSE Return(CHOOSE v \in {value(errs) : errs \in {found}} : TRUE),
      command |-> built.command,
      options |-> built.options]

\* A postProcess that records no error.
PostProcessForgets(result) == [logged |-> <<>>, value |-> result]

\* postProcess(result) of index.js: what it pushes on this._errors and what
\* it returns.
CliPostProcess(result) ==
  LET errs == Get(result, "errors")
  IN [logged |-> IF Len(errs.s) > 0 THEN <<errs.s>> ELSE <<>>,
      value |-> result]

\* cacheKeyProcessString of the host filter, which index.js does not
\* override: md5Hex(string + 0x00 + relativePath).
FilterCacheKeyProcessString(content, relativePath) ==
  Md5Hex(<<content, <<"0">>, relativePath>>)

\* _formatOutput(message) of index.js on one line: a line of the form
\* "<file>:<line> [<tag>] <description>" is rewritten with its source.
FormatLine(line) ==
  LET tags == {i \in 3..Len(line) :
                 /\ line[i] \in {"[W]", "[E]"}
                 /\ line[i - 1] = " "
                 /\ line[i - 2] \in {"0", "1", "2", "3", "4", "5", "6", "7", "8", "9"}}
  IN IF tags = {} THEN line
     ELSE LET i == CHOOSE i \in tags : \A j \in tags : j <= i
              rest == Drop(line, i)
              description == IF rest # <<>> /\ rest[1] = " " THEN Tail(rest) ELSE rest
          IN <<"[scss-lint]", " ">> \o SubSeq(line, 1, i - 2) \o <<" ", "-", " ">>
             \o description

\* _formatOutput(message) of index.js, colours left out.
FormatOutput(message) ==
  LET shown(lines) == SelectSeq([i \in 1..Len(lines) |-> FormatLine(lines[i])],
                                LAMBDA l : l # <<>>)
      output == CHOOSE o \in {Join(shown(lines), <<"\r", "\n">>) :
                                lines \in {SplitOn(message, "\n")}} : TRUE
  IN IF output # <<>> THEN <<"\r", "\n">> \o output ELSE <<>>

(***************************************************************************)
(* Inputs: the input trees, the options and the rule-configs on disk.      *)
(***************************************************************************)
PathVendor == <<"v", "/", "r", ".", "s", "c", "s", "s">>
PathB == <<"b", ".", "s", "c", "s", "s">>
PathAB == <<"a", "b", ".", "s", "c", "s", "s">>
PathTxt == <<"a", ".", "t", "x", "t">>

Paths == {PathVendor, PathB, PathAB, PathTxt}
Contents ==
  {ContentClean, ContentError, ContentWarning, ContentNoMessages, ContentCrash}

FileUnit(c, p) == [content |-> c, path |-> p]

\* The files a tree may hold, in the order of their paths.
FileUnits ==
  <<FileUnit(ContentClean, PathTxt),
    FileUnit(ContentClean, PathAB),
    FileUnit(ContentWarning, PathAB),
    FileUnit(ContentError, PathB),
    FileUnit(ContentNoMessages, PathB),
    FileUnit(ContentClean, PathVendor),
    FileUnit(ContentCrash, PathVendor)>>

\* An input tree: up to MaxFiles files of different paths.
Trees ==
  {S \in SUBSET (1..Len(FileUnits)) :
     /\ S # {}
     /\ Cardinality(S) <= MaxFiles
     /\ \A i, j \in S : i # j => FileUnits[i].path # FileUnits[j].path}

GlobVendor == <<"v", "/", "*", "*">>
GlobOther == <<"c", "/", "*", "*">>

IgnoreOption(patterns) == KV("files", Obj(<<KV("ignore", patterns)>>))

OptNone == Obj(<<>>)
OptIgnoreString == Obj(<<IgnoreOption(Str(GlobVendor))>>)
OptIgnoreList == Obj(<<IgnoreOption(Arr(<<Str(GlobOther), Str(GlobVendor)>>))>>)
OptIgnoreNumber == Obj(<<IgnoreOption(Num("7"))>>)
OptFilesNull == Obj(<<KV("files", Null)>>)
OptGeneratorQunit == Obj(<<KV("testGenerator", Str(<<"qunit">>))>>)
OptGeneratorMocha == Obj(<<KV("testGenerator", Str(<<"mocha">>))>>)
OptGeneratorUnknown == Obj(<<KV("testGenerator", Str(<<"jasmine">>))>>)
OptGeneratorFunction == Obj(<<KV("testGenerator", Fn(<<"g">>))>>)
OptCallback ==
  Obj(<<KV("config", Str(<<"c", ".", "y", "m", "l">>)), KV("cb", Fn(<<"f">>))>>)

LibOptions ==
  {OptNone, OptIgnoreString, OptIgnoreList, OptIgnoreNumber, OptFilesNull,
   OptGeneratorQunit, OptGeneratorMocha, OptGeneratorUnknown,
   OptGeneratorFunction, OptCallback}

OptBundleExec == Obj(<<KV("bundleExec", Bool(TRUE))>>)
OptBundleConfig ==
  Obj(<<KV("bundleExec", Bool(TRUE)), KV("config", Str(<<"c", ".", "y", "m", "l">>))>>)
OptNoGenerator == Obj(<<KV("disableTestGenerator", Bool(TRUE))>>)

CliOptions == {OptNone, OptBundleExec, OptBundleConfig, OptNoGenerator}

\* What the engine resolves from disk: its defaults, or nothing at all
\* (no config file, default rules not merged).
DiskDefaults == Obj(<<KV("files", Obj(<<KV("include", Str(<<"*">>))>>))>>)
DiskBare == Obj(<<>>)

Disks == {DiskDefaults, DiskBare}

\* What the test generators are called with: paths and messages with
\* quotes, backslashes and line breaks, reports with and without errorCount
\* and messages.
StubPaths ==
  {<<"a">>, <<"a", "'", "b">>, <<"a", "\\", "b">>, <<"a", "\n", "b">>,
   <<"d", "/", "a">>, <<"a", "\"">>}

StubReports ==
  {LintReport(<<"a">>, "0", "0", Arr(<<>>)),
   LintReport(<<"a">>, "0", "1", Arr(<<LintMessage("2", <<"b", "'", "d">>)>>)),
   LintReport(<<"a">>, "1", "0", Arr(<<LintMessage("1", <<"o", "\n", "d">>)>>)),
   LintReport(<<"a">>, "0", "2", Arr(<<LintMessage("2", <<"b">>),
                                      LintMessage("2", <<"\"">>)>>)),
   Obj(<<KV("messages", Arr(<<LintMessage("1", <<"\\">>)>>))>>),
   Obj(<<KV("errorCount", Num("2"))>>)}

\* passed and errors, as processString of index.js hands them on
CliStubResults ==
  {Obj(<<KV("passed", Bool(b)), KV("errors", Str(e))>>) :
     b \in BOOLEAN, e \in {<<>>, <<"e">>, <<"e", "'">>}}

GeneratorStyles == {"qunit", "mocha", "cli"}

InputTree == Obj(<<>>)
InputNodes == {InputTree, Undefined, Null, Str(<<"d">>)}

(***************************************************************************)
(* Variables.                                                              *)
(***************************************************************************)
VARIABLES
  backend,   \* "lib" (lib/index.js) or "cli" (index.js)
  disk,      \* the rule-config the lint engine resolves from disk
  node,      \* the input node the constructor was handed
  given,     \* the options object as the constructor was handed it
  options,   \* this.options, as it is now
  self,      \* the instance: its state and its own properties
  pass,      \* the number of build passes started
  phase,     \* "idle" between passes, "running" within one
  files,     \* the files of the pass, each with the stage it has reached
  cache,     \* the host's persistent cache: [key, value] entries
  errors,    \* this._errors of index.js
  reporter,  \* the calls of this pass to the reporting collaborator
  lints,     \* the calls of processString of lib/index.js that returned,
             \* each with what it read and whether an earlier pass made it
  stub       \* a call of a test generator: what it was given and returned

vars ==
  <<backend, disk, node, given, options, self, pass, phase, files, cache,
    errors, reporter, lints, stub>>

NoKey == [md5 |-> <<>>]

\* No test generator has been called.
NoStub == [style |-> "none", relativePath |-> <<>>, results |-> Undefined,
           output |-> <<>>]

NewFile(unit) ==
  [content |-> unit.content, path |-> unit.path, stage |-> "new",
   dest |-> Undefined, destConfig |-> Undefined, key |-> NoKey,
   keyConfig |-> Undefined, pkg |-> Undefined, fromCache |-> FALSE,
   post |-> Undefined, error |-> NoError, command |-> <<>>]

Terminal == {"skipped", "emitted", "failed"}

\* this.getConfig()
Resolved == GetConfig(options, disk)

\* this.targetExtension
TargetExtension ==
  Prop(self.own, IF backend = "lib" THEN LibPrototype ELSE CliPrototype,
       "targetExtension").s

\* A host that does not persist what processString returns.
NeverCached(key) == FALSE

\* The host's cache holds a result under the key.
Cached(key) == \E e \in cache : e.key = key
CachedValue(key) == (CHOOSE e \in cache : e.key = key).value

Init ==
  /\ backend \in {"lib", "cli"}
  /\ disk \in IF backend = "lib" THEN Disks ELSE {DiskDefaults}
  /\ node = Undefined
  /\ given = OptNone
  /\ options = OptNone
  /\ self = NoInstance
  /\ pass = 0
  /\ phase = "idle"
  /\ files = <<>>
  /\ cache = {}
  /\ errors = <<>>
  /\ reporter = <<>>
  /\ lints = {}
  /\ stub = NoStub

\* new ScssLinter(inputNode, opts)
Construct(inputNode, opts) ==
  /\ self.state = "none"
  /\ opts \in IF backend = "lib" THEN LibOptions ELSE CliOptions
  /\ self' \in IF backend = "lib"
               THEN LibConstruct(inputNode, opts)
               ELSE CliConstruct(inputNode, opts)
  /\ node' = inputNode
  /\ given' = opts
  /\ options' = opts
  /\ UNCHANGED <<stub, lints, backend, disk, pass, phase, files, cache, errors, reporter>>

\* build(): the host starts a pass over the files of the input tree;
\* index.js first empties this._errors.
Build(tree) ==
  /\ self.state = "ok"
  /\ node = InputTree
  /\ phase = "idle"
  /\ pass < MaxPasses
  /\ pass' = pass + 1
  /\ phase' = "running"
  /\ files' = [i \in tree |-> NewFile(FileUnits[i])]
  /\ errors' = <<>>
  /\ reporter' = <<>>
  /\ lints' = {[l EXCEPT !.earlier = TRUE] : l \in lints}
  /\ UNCHANGED <<stub, backend, disk, node, given, options, self, cache>>

\* The host works through the files of the pass in series, in the order of
\* their paths: it takes up a file when every file before it is done, and
\* none has failed.
InSeries(i) ==
  \A j \in DOMAIN files : j < i => files[j].stage \in {"skipped", "emitted"}

\* The host takes up a file, and asks getDestFilePath whether it is to
\* process it.
GetDestFilePath(i) ==
  /\ phase = "running"
  /\ files[i].stage = "new"
  /\ InSeries(i)
  /\ LET out == IF backend = "lib"
                THEN LibGetDestFilePath(files[i].path, Resolved, TargetExtension)
                ELSE Return(FilterGetDestFilePath(files[i].path, Extensions,
                                                  TargetExtension))
     IN files' = [files EXCEPT ![i] =
          IF out.threw
          THEN [@ EXCEPT !.stage = "failed", !.error = out.error,
                         !.destConfig = Resolved]
          ELSE [@ EXCEPT !.dest = out.value,
                         !.destConfig = Resolved,
                         !.stage = IF out.value.t = "null" THEN "skipped"
                                   ELSE "eligible"]]
  /\ UNCHANGED <<stub, lints, backend, disk, node, given, options, self, pass, phase, cache, errors,
                 reporter>>

\* The host computes the cache key of the file.
CacheKeyProcessString(i) ==
  /\ phase = "running"
  /\ files[i].stage = "eligible"
  /\ files' = [files EXCEPT ![i].stage = "keyed",
                            ![i].keyConfig = Resolved,
                            ![i].key =
       IF backend = "lib"
       THEN LibCacheKeyProcessString(files[i].content, files[i].path, options,
                                     Resolved)
       ELSE FilterCacheKeyProcessString(files[i].content, files[i].path)]
  /\ UNCHANGED <<stub, lints, backend, disk, node, given, options, self, pass, phase, cache, errors,
                 reporter>>

\* The host finds the key in its cache and parses the stored result.
CacheHit(i) ==
  /\ phase = "running"
  /\ files[i].stage = "keyed"
  /\ Cached(files[i].key)
  /\ files' = [files EXCEPT ![i].stage = "packaged",
                            ![i].fromCache = TRUE,
                            ![i].pkg = CachedValue(files[i].key)]
  /\ UNCHANGED <<stub, lints, backend, disk, node, given, options, self, pass, phase, cache, errors,
                 reporter>>

\* processString(content, relativePath) on a cache miss; the host stores
\* what it returns.
ProcessString(i) ==
  /\ phase = "running"
  /\ files[i].stage = "keyed"
  /\ ~Cached(files[i].key)
  /\ \E run \in {IF backend = "lib"
                 THEN [outcome |-> LibProcessString(files[i].content, files[i].path,
                                                    self.own, options),
                       command |-> <<>>,
                       options |-> options]
                 ELSE CliProcessString(files[i].content, files[i].path, self.own,
                                       options)} :
       /\ files' = [files EXCEPT ![i] =
            IF run.outcome.threw
            THEN [@ EXCEPT !.stage = "failed", !.error = run.outcome.error,
                           !.command = run.command]
            ELSE [@ EXCEPT !.stage = "packaged", !.pkg = run.outcome.value,
                           !.command = run.command]]
       /\ options' = run.options
       /\ cache' = IF run.outcome.threw THEN cache
                   ELSE cache \cup {[key |-> files[i].key,
                                     value |-> JsonClone(run.outcome.value)]}
       /\ lints' = IF backend = "cli" \/ run.outcome.threw THEN lints
                   ELSE lints \cup
                          {[earlier |-> FALSE, content |-> files[i].content,
                            path |-> files[i].path, key |-> files[i].key,
                            keyConfig |-> files[i].keyConfig,
                            used |-> Resolved]}
  /\ UNCHANGED <<stub, backend, disk, node, given, self, pass, phase, errors, reporter>>

\* postProcess(result); the host then writes result.output.
PostProcess(i) ==
  /\ phase = "running"
  /\ files[i].stage = "packaged"
  /\ LET lib == LibPostProcess(files[i].pkg)
         cli == CliPostProcess(files[i].pkg)
     IN /\ files' = [files EXCEPT ![i].stage = "emitted",
                                  ![i].post = IF backend = "lib" THEN lib.value
                                              ELSE cli.value]
        /\ reporter' = IF backend = "lib"
                       THEN reporter \o [n \in 1..Len(lib.reported) |->
                              [by |-> "postProcess", file |-> i,
                               payload |-> lib.reported[n]]]
                       ELSE reporter
        /\ errors' = IF backend = "cli" THEN errors \o cli.logged ELSE errors
  /\ UNCHANGED <<stub, lints, backend, disk, node, given, options, self, pass, phase, cache>>

\* A build() of index.js that prints this._errors only when the host's
\* build resolves.
SettledPrintsOnSuccess ==
  /\ phase = "running"
  /\ \/ \A i \in DOMAIN files : files[i].stage \in Terminal
     \/ \E i \in DOMAIN files : files[i].stage = "failed"
  /\ phase' = "idle"
  /\ \E text \in {Join(errors, <<"\n">>)} :
       reporter' = IF /\ backend = "cli"
                      /\ Len(text) > 0
                      /\ \A i \in DOMAIN files : files[i].stage # "failed"
                   THEN Append(reporter, [by |-> "build", file |-> 0,
                                          payload |-> Str(FormatOutput(text))])
                   ELSE reporter
  /\ UNCHANGED <<stub, lints, backend, disk, node, given, options, self, pass, files, cache, errors>>

\* The host's build settles: every file is done, or one has failed.  The
\* finally callback of build() in index.js then prints this._errors.
BuildSettled ==
  /\ phase = "running"
  /\ \/ \A i \in DOMAIN files : files[i].stage \in Terminal
     \/ \E i \in DOMAIN files : files[i].stage = "failed"
  /\ phase' = "idle"
  /\ \E text \in {Join(errors, <<"\n">>)} :
       reporter' = IF backend = "cli" /\ Len(text) > 0
                   THEN Append(reporter, [by |-> "build", file |-> 0,
                                          payload |-> Str(FormatOutput(text))])
                   ELSE reporter
  /\ UNCHANGED <<stub, lints, backend, disk, node, given, options, self, pass, files, cache, errors>>

\* A test generator is called: qunit and mocha of dist/test-generators.js
\* with a path and a report, testGenerator of index.js with a path, passed
\* and errors.
Generate(style, relativePath, results) ==
  /\ results \in IF style = "cli" THEN CliStubResults ELSE StubReports
  /\ stub' =
       [style |-> style, relativePath |-> relativePath, results |-> results,
        output |->
          CASE style = "qunit" ->
                 TestGenerator("qunitString", relativePath,
                               Get(results, "messages"), results)
            [] style = "mocha" ->
                 TestGenerator("mochaString", relativePath,
                               Get(results, "messages"), results)
            [] OTHER ->
                 CliTestGenerator(relativePath, Truthy(Get(results, "passed")),
                                  Get(results, "errors").s)]
  /\ UNCHANGED <<lints, backend, disk, node, given, options, self, pass, phase,
                 files, cache, errors, reporter>>

Next ==
  \/ \E inputNode \in InputNodes, opts \in LibOptions \cup CliOptions :
       Construct(inputNode, opts)
  \/ \E tree \in Trees : Build(tree)
  \/ \E i \in DOMAIN files : GetDestFilePath(i)
  \/ \E i \in DOMAIN files : CacheKeyProcessString(i)
  \/ \E i \in DOMAIN files : CacheHit(i)
  \/ \E i \in DOMAIN files : ProcessString(i)
  \/ \E i \in DOMAIN files : PostProcess(i)
  \/ BuildSettled

Spec == Init /\ [][Next]_vars

\* A pass that has started goes on: the host takes up the files and calls
\* the filter for each, and its build promise settles, resolved or
\* rejected; the finally callback of build() runs then.
PassStep ==
  \/ \E i \in DOMAIN files :
       \/ GetDestFilePath(i)
       \/ CacheKeyProcessString(i)
       \/ CacheHit(i)
       \/ ProcessString(i)
       \/ PostProcess(i)
  \/ BuildSettled

\* index.js alone, every pass running to its end.
CliInit == Init /\ backend = "cli"

CliSpec == CliInit /\ [][Next]_vars /\ WF_vars(PassStep)

\* The test generators on their own, called with every input.
GeneratorNext ==
  \E style \in GeneratorStyles, relativePath \in StubPaths,
     results \in StubReports \cup CliStubResults :
    Generate(style, relativePath, results)

GeneratorSpec == Init /\ [][GeneratorNext]_vars

\* The config file that sass-lint reads is rewritten after the key of a
\* file was computed and before the file is linted: linter.getConfig and
\* linter.lintText each read it when they are called.
ConfigChanges ==
  /\ backend = "lib"
  /\ phase = "running"
  /\ \E i \in DOMAIN files : files[i].stage = "keyed"
  /\ disk' \in Disks \ {disk}
  /\ UNCHANGED <<stub, lints, backend, node, given, options, self, pass, phase, files,
                 cache, errors, reporter>>

\* The calls of the host, and the config file changing between them.
ConfigNext ==
  \/ Next
  \/ ConfigChanges

ConfigSpec == Init /\ [][ConfigNext]_vars

(***************************************************************************)
(* The cache key of lib/index.js.                                          *)
(***************************************************************************)
Bijections(n) ==
  {f \in [1..n -> 1..n] : \A a, b \in 1..n : a # b => f[a] # f[b]}

\* Every value with the keys and values of v, its objects written in any
\* insertion order.
RECURSIVE Reorderings(_)
Reorderings(v) ==
  IF v.t # "object" THEN {v}
  ELSE LET n == Len(v.kids)
           all == UNION {Reorderings(v.kids[i].v) : i \in 1..n}
           inner == {c \in [1..n -> all] :
                       \A i \in 1..n : c[i] \in Reorderings(v.kids[i].v)}
       IN {Obj([i \in 1..n |-> KV(v.kids[f[i]].k, c[f[i]])]) :
             f \in Bijections(n), c \in inner}

\* The files of a pass of lib/index.js whose cache key has just been
\* computed: the key of a file is computed once and kept.
LibKeyed == {i \in DOMAIN files : backend = "lib" /\ files[i].stage = "keyed"}

\* C1: the cache key of a file is a function of the content, the path, the
\* options and the resolved config alone, and it is the same for every
\* insertion order of the keys of the options and of the resolved config,
\* nested objects included.
CacheKeyIgnoresKeyOrder ==
  \A i \in LibKeyed :
    \A o \in Reorderings(options), r \in Reorderings(files[i].keyConfig) :
      LibCacheKeyProcessString(files[i].content, files[i].path, o, r)
        = files[i].key

\* A key has been computed under options of two keys, which have another
\* insertion order.
CacheKeyIgnoresKeyOrderWitness ==
  \E i \in LibKeyed :
    /\ Len(options.kids) >= 2
    /\ \E o \in Reorderings(options) : Keys(o) # Keys(options)

\* A value with one scalar, or the source of one function, changed.
RECURSIVE Changed(_)
Changed(v) ==
  CASE v.t = "string" -> {Str(v.s \o <<"z">>), Str(v.s \o <<"\"">>)}
    [] v.t = "number" -> {Num("8")}
    [] v.t = "boolean" -> {Bool(v.s # <<"true">>)}
    [] v.t = "function" -> {Fn(v.s \o <<"z">>)}
    [] v.t = "array" ->
         UNION {{Arr([v.kids EXCEPT ![i] = c]) : c \in Changed(v.kids[i])} :
                  i \in 1..Len(v.kids)}
    [] v.t = "object" ->
         UNION {{Obj([v.kids EXCEPT ![i] = KV(v.kids[i].k, c)]) :
                   c \in Changed(v.kids[i].v)} : i \in 1..Len(v.kids)}
    [] OTHER -> {}

\* A value with one part replaced by a value of another type or shape: a
\* function by the string of its source, a number by the string of its
\* digits, null by the string "null", a string by a one-item array, an
\* array by its reverse or its tail, an object by one with a key less or a
\* key more.
RECURSIVE Reshaped(_)
Reshaped(v) ==
  CASE v.t \in {"function", "number"} -> {Str(v.s)}
    [] v.t = "null" -> {Str(<<"null">>), Obj(<<>>)}
    [] v.t = "string" -> {Arr(<<v>>)}
    [] v.t = "array" ->
         ({Arr([i \in 1..Len(v.kids) |-> v.kids[Len(v.kids) + 1 - i]]),
           Arr(Tail(v.kids))} \ {v})
         \cup UNION {{Arr([v.kids EXCEPT ![i] = c]) : c \in Reshaped(v.kids[i])} :
                       i \in 1..Len(v.kids)}
    [] v.t = "object" ->
         {Delete(v, v.kids[i].k) : i \in 1..Len(v.kids)}
         \cup (IF HasKey(v, "config") THEN {}
               ELSE {Put(v, "config", Str(<<"q">>))})
         \cup UNION {{Obj([v.kids EXCEPT ![i] = KV(v.kids[i].k, c)]) :
                        c \in Reshaped(v.kids[i].v)} : i \in 1..Len(v.kids)}
    [] OTHER -> {}

\* The options that stand for another mapping than this.options.
OtherOptions ==
  LET same == Reorderings(options)
  IN {o \in Changed(options) \cup Reshaped(options) \cup LibOptions :
        o \notin same}

\* C2: with everything else as it was, the cache key of a file changes when
\* the content changes, when the path changes, when a scalar of the options
\* or the source of a function of the options changes (the resolved config
\* kept, or resolved again), and when the options are any other mapping.
CacheKeySensitive ==
  \A i \in LibKeyed :
    LET f == files[i]
        Key(c, p, o, r) == LibCacheKeyProcessString(c, p, o, r)
    IN /\ \A c \in Contents \ {f.content} :
            Key(c, f.path, options, f.keyConfig) # f.key
       /\ \A p \in Paths \ {f.path} :
            Key(f.content, p, options, f.keyConfig) # f.key
       /\ \A o \in Changed(options) :
            Key(f.content, f.path, o, f.keyConfig) # f.key
       /\ \A d \in Disks :
            GetConfig(options, d) = f.keyConfig =>
              \A o \in OtherOptions :
                Key(f.content, f.path, o, GetConfig(o, d)) # f.key

\* A key has been computed under options that hold a function and a scalar.
CacheKeySensitiveWitness ==
  \E i \in LibKeyed :
    /\ \E n \in 1..Len(options.kids) : options.kids[n].v.t = "function"
    /\ \E n \in 1..Len(options.kids) : options.kids[n].v.t = "string"
    /\ Changed(options) # {}

(***************************************************************************)
(* Which files lib/index.js processes.                                     *)
(***************************************************************************)
\* The ignore patterns of a resolved config: files.ignore when it is a
\* string, its strings when it is a list.
Patterns(resolved) ==
  LET ignore == Get(Get(resolved, "files"), "ignore")
  IN IF ignore.t = "string" THEN {ignore.s}
     ELSE IF ignore.t = "array"
     THEN {ignore.kids[i].s : i \in {j \in 1..Len(ignore.kids) :
                                       ignore.kids[j].t = "string"}}
     ELSE {}

\* The path matches one of the ignore patterns.
Ignored(relativePath, resolved) ==
  \E pattern \in Patterns(resolved) : Minimatch(relativePath, pattern)

\* The resolved config has a files entry that can be read from.
HasFiles(resolved) == Get(resolved, "files").t \notin {"undefined", "null"}

\* What the host's rule gives for the path.
HostDest(relativePath) ==
  FilterGetDestFilePath(relativePath, Extensions, TargetExtension)

\* The files of a pass of lib/index.js that getDestFilePath was asked about.
LibAsked == {i \in DOMAIN files : backend = "lib" /\ files[i].stage # "new"}

\* getDestFilePath threw for the file.
DestThrew(i) ==
  files[i].stage = "failed" /\ files[i].dest = Undefined /\ files[i].key = NoKey

\* C3, as amended: under a resolved config with a files entry,
\* getDestFilePath returns null for an ignored path and, for every other
\* path, what the host's rule returns, which is null for a path with none
\* of the extensions; under a resolved config without one it throws a
\* TypeError.
GetDestFilePathFollowsHost ==
  \A i \in LibAsked :
    IF HasFiles(files[i].destConfig)
    THEN files[i].dest = IF Ignored(files[i].path, files[i].destConfig)
                         THEN Null
                         ELSE HostDest(files[i].path)
    ELSE DestThrew(i) /\ files[i].error.name = "TypeError"

\* In one pass an ignored file got null, a file that is not ignored got a
\* path, and a file that is not ignored got null from the host's rule.
GetDestFilePathFollowsHostWitness ==
  /\ \E i \in LibAsked :
       /\ HasFiles(files[i].destConfig)
       /\ Ignored(files[i].path, files[i].destConfig)
       /\ files[i].dest = Null
  /\ \E i \in LibAsked :
       /\ ~Ignored(files[i].path, files[i].destConfig)
       /\ files[i].dest.t = "string"

\* C3, as the specification has it: getDestFilePath returns null exactly
\* for the ignored paths, and the host's result for the others.
GetDestFilePathNullIffIgnored ==
  \A i \in LibAsked :
    files[i].dest # Undefined =>
      /\ files[i].dest = Null <=> Ignored(files[i].path, files[i].destConfig)
      /\ ~Ignored(files[i].path, files[i].destConfig) =>
           files[i].dest = HostDest(files[i].path)

\* C4: neither the eligibility check nor the cache key throws on any
\* configuration, and a file is not ignored when the resolved config has no
\* files entry or an ignore that is neither a string nor a list.
EligibilityNeverThrows ==
  \A i \in LibAsked :
    /\ ~DestThrew(i)
    /\ Patterns(files[i].destConfig) = {} =>
         files[i].dest = HostDest(files[i].path)

(***************************************************************************)
(* What processString and postProcess return, and what is reported.        *)
(***************************************************************************)
\* The files processString has returned a result for in this pass.
Processed ==
  {i \in DOMAIN files :
     files[i].stage \in {"packaged", "emitted"} /\ ~files[i].fromCache}

\* this.testGenerator is set.
GeneratorConfigured ==
  Truthy(Prop(self.own, IF backend = "lib" THEN LibPrototype ELSE CliPrototype,
              "testGenerator"))

\* The report of the engine for a file.
EngineReport(i) ==
  LintText([text |-> files[i].content, format |-> ExtName(files[i].path),
            filename |-> files[i].path], options,
           Prop(self.own, LibPrototype, "config")).value

\* C5, as amended: processString of lib/index.js returns {report, output}:
\* report is the engine's report, and output is the content, unless a test
\* generator is configured and report.messages is an array, when it is what
\* the generator returns.  processString of index.js returns {output,
\* passed, errors}: output is the generated test, or the empty string when
\* disableTestGenerator is set.
ProcessStringResult ==
  \A i \in Processed :
    LET result == files[i].pkg
        report == Get(result, "report")
    IN IF backend = "lib"
       THEN /\ Keys(result) = <<"report", "output">>
            /\ report = EngineReport(i)
            /\ Get(result, "output") =
                 IF GeneratorConfigured /\ Get(report, "messages").t = "array"
                 THEN CallTestGenerator(Get(self.own, "testGenerator"),
                                        files[i].path, Get(report, "messages"),
                                        report).value
                 ELSE Str(files[i].content)
       ELSE /\ Keys(result) = <<"output", "passed", "errors">>
            /\ Get(result, "output") =
                 IF Truthy(Get(self.own, "disableTestGenerator"))
                 THEN Str(<<>>)
                 ELSE Str(CliTestGenerator(files[i].path,
                                           Get(result, "passed") = Bool(TRUE),
                                           Get(result, "errors").s))

\* lib/index.js has processed a file with a generator configured, once
\* with messages that are an array and once with a report without them.
ProcessStringResultWitness ==
  /\ backend = "lib"
  /\ GeneratorConfigured
  /\ \E i \in Processed :
       /\ Get(Get(files[i].pkg, "report"), "messages").t = "array"
       /\ Get(files[i].pkg, "output") # Str(files[i].content)
  /\ \E i \in Processed :
       /\ Get(Get(files[i].pkg, "report"), "messages").t # "array"
       /\ Get(files[i].pkg, "output") = Str(files[i].content)

\* C5, as the specification has it: processString returns a report and an
\* output, and the output is the content unless a test generator is
\* configured and report.messages is an array.
ProcessStringReturnsReportAndOutput ==
  \A i \in Processed :
    /\ HasKey(files[i].pkg, "report")
    /\ HasKey(files[i].pkg, "output")
    /\ \/ Get(files[i].pkg, "output") = Str(files[i].content)
       \/ /\ GeneratorConfigured
          /\ Get(Get(files[i].pkg, "report"), "messages").t = "array"

\* The files postProcess has returned for in this pass.
PostProcessed == {i \in DOMAIN files : files[i].stage = "emitted"}

\* A count of a report that is a number other than 0.
NonZero(count) == count.t = "number" /\ count.s # <<"0">>

\* The report of the file has errors or warnings.
HasFindings(i) ==
  LET report == Get(files[i].pkg, "report")
  IN NonZero(Get(report, "errorCount")) \/ NonZero(Get(report, "warningCount"))

\* The calls of this pass that postProcess made to the reporter for a file.
Forwarded(i) ==
  {n \in 1..Len(reporter) :
     reporter[n].by = "postProcess" /\ reporter[n].file = i}

ReporterCalls ==
  IF backend = "cli"
  THEN /\ Len(reporter) <= 1
       /\ phase = "running" => reporter = <<>>
       /\ \A n \in 1..Len(reporter) :
            /\ reporter[n].by = "build"
            /\ reporter[n].payload = Str(FormatOutput(Join(errors, <<"\n">>)))
  ELSE /\ \A n \in 1..Len(reporter) : reporter[n].by = "postProcess"
       /\ \A i \in PostProcessed :
            Cardinality(Forwarded(i)) = IF HasFindings(i) THEN 1 ELSE 0
       /\ Len(reporter) = Cardinality({i \in PostProcessed : HasFindings(i)})

\* lib/index.js has called the reporter for the first file of a pass while
\* the second is being processed, and has called it again for the second.
ReporterCallsWitness ==
  /\ backend = "lib"
  /\ phase = "running"
  /\ Len(reporter) = 2
  /\ reporter[1].file # reporter[2].file

\* C7, as the specification has it: the reporter is called at most once in
\* a pass, at its end, and never for a single file while the pass is
\* running.
ReporterOncePerPass ==
  /\ Len(reporter) <= 1
  /\ phase = "running" => reporter = <<>>
  /\ \A n \in 1..Len(reporter) : reporter[n].by = "build"

(***************************************************************************)
(* The options and the constructor.                                        *)
(***************************************************************************)
\* C8: this.options is what the constructor was given, whatever has been
\* called since.
OptionsNeverMutated == self.state = "ok" => options = given

\* The styles the test generators are known by.
RegisteredStyles == {"qunit", "mocha"}

\* lib/index.js has been constructed, or has failed to be, over a tree.
LibConstructed == backend = "lib" /\ self.state # "none" /\ node = InputTree

\* C9: constructing lib/index.js with a testGenerator string that names no
\* registered style fails with the error "Could not find ... test
\* generator".
UnknownGeneratorRejected ==
  LET named == Get(given, "testGenerator")
  IN (LibConstructed /\ named.t = "string" /\ named.s[1] \notin RegisteredStyles)
       => /\ self.state = "threw"
          /\ self.error.name = "Error"
          /\ self.error.message[1] = "Could not find '"

\* C10: constructing lib/index.js with a registered style succeeds, with
\* the generator of that style as this.testGenerator and the target
\* extension 'sass-lint-test.js'; without a testGenerator the target
\* extension stays 'scss'.
RegisteredGeneratorResolved ==
  LET named == Get(given, "testGenerator")
  IN LibConstructed =>
       /\ (named.t = "string" /\ named.s[1] \in RegisteredStyles) =>
            /\ self.state = "ok"
            /\ Get(self.own, "testGenerator").t = "function"
            /\ TargetExtension = TestTargetExtension
       /\ named.t = "undefined" =>
            /\ self.state = "ok"
            /\ TargetExtension = LibTargetExtension

(***************************************************************************)
(* A lint engine that throws.                                              *)
(***************************************************************************)
\* What the engine does for the file when it is called.
EngineOutcome(i) ==
  LintText([text |-> files[i].content, format |-> ExtName(files[i].path),
            filename |-> files[i].path], options,
           Prop(self.own, LibPrototype, "config"))

\* The files of a pass of lib/index.js that processString was called for.
LibLinted ==
  {i \in DOMAIN files :
     /\ backend = "lib"
     /\ files[i].key # NoKey
     /\ files[i].stage \in {"packaged", "emitted", "failed"}
     /\ ~files[i].fromCache}

\* C11: when the engine throws for a file, processString of lib/index.js
\* ends in that same exception: the file fails with the engine's error, no
\* result is returned, stored in the cache, post-processed or reported for
\* it.
EngineThrowPropagates ==
  \A i \in LibLinted :
    EngineOutcome(i).threw =>
      /\ files[i].stage = "failed"
      /\ files[i].error = EngineOutcome(i).error
      /\ files[i].pkg = Undefined
      /\ files[i].post = Undefined
      /\ Forwarded(i) = {}
      /\ ~Cached(files[i].key)

\* processString has been called for a file the engine throws on.
EngineThrowPropagatesWitness ==
  \E i \in LibLinted :
    /\ EngineOutcome(i).threw
    /\ files[i].stage = "failed"
    /\ files[i].error.message = <<"Parsing error">>

(***************************************************************************)
(* this._errors of index.js.                                               *)
(***************************************************************************)
\* The files of the pass whose result has errors text, post-processed.
WithErrorsText ==
  {i \in DOMAIN files :
     files[i].stage = "emitted" /\ Get(files[i].pkg, "errors").s # <<>>}

\* How often the errors text of the file is on this._errors.
TimesLogged(i) ==
  Cardinality({n \in 1..Len(errors) : errors[n] = Get(files[i].pkg, "errors").s})

LintedBefore(i) ==
  {l \in lints :
     /\ l.earlier
     /\ l.content = files[i].content
     /\ l.path = files[i].path
     /\ l.keyConfig = files[i].keyConfig}

\* The calls of processString in this pass for the file that returned.
LintedNow(i) ==
  {l \in lints :
     ~l.earlier /\ l.content = files[i].content /\ l.path = files[i].path}

HasToken(source, token) == \E n \in 1..Len(source) : source[n] = token

\* The token that follows the first occurrence of a token of the source.
TokenAfter(source, token) ==
  LET at == {n \in 1..(Len(source) - 1) : source[n] = token}
  IN source[(CHOOSE n \in at : \A m \in at : n <= m) + 1]

\* The string literals of a JavaScript source as a parser reads them: a
\* literal runs from a quote to the next quote that no backslash precedes,
\* a backslash stands with the character after it for one character, and a
\* line break within a literal is an error, as is a literal left open.
\* One character read: mode is where the parser stands ("code", "literal",
\* or "escape" after a backslash within a literal).
ScanStep(st, c) ==
  IF ~st.ok THEN st
  ELSE IF st.mode = "code"
       THEN IF c = "'" THEN [st EXCEPT !.mode = "literal", !.current = <<>>]
            ELSE st
  ELSE IF st.mode = "escape"
       THEN [st EXCEPT !.mode = "literal",
                       !.current = Append(@, IF c = "n" THEN "\n"
                                             ELSE IF c = "r" THEN "\r" ELSE c)]
  ELSE IF c = "'"
       THEN [st EXCEPT !.mode = "code", !.done = Append(@, st.current)]
  ELSE IF c \in {"\n", "\r"} THEN [st EXCEPT !.ok = FALSE]
  ELSE IF c = "\\" THEN [st EXCEPT !.mode = "escape"]
  ELSE [st EXCEPT !.current = Append(@, c)]

\* The characters lo..hi read in order, the range halved at each step;
\* nothing is read after an error.
RECURSIVE ScanRange(_, _, _, _)
ScanRange(source, lo, hi, st) ==
  IF lo > hi THEN st
  ELSE IF lo = hi THEN ScanStep(st, source[lo])
  ELSE LET mid == (lo + hi) \div 2
           left == ScanRange(source, lo, mid, st)
       IN IF left.ok THEN ScanRange(source, mid + 1, hi, left) ELSE left

Literals(source) ==
  LET end == ScanRange(source, 1, Len(source),
                       [mode |-> "code", ok |-> TRUE, current |-> <<>>, done |-> <<>>])
  IN [ok |-> end.ok /\ end.mode = "code", literals |-> end.done]

\* The text has the part, in one piece.
Contains(text, part) ==
  \E k \in 0..(Len(text) - Len(part)) : SubSeq(text, k + 1, k + Len(part)) = part

\* The errorCount of the report is 0, or the report has none.
NoErrorCount(results) ==
  Get(results, "errorCount") \in {Undefined, Num("0")}

\* C14: the generators of dist/test-generators.js take a file to have
\* passed exactly when the errorCount of its report is 0 or missing; the
\* qunit test asserts that value; the mocha test has the pass marker and
\* throws nothing when the file has passed, and otherwise throws an
\* assertion error with the rendered messages as its text and its stack
\* set to undefined.
GeneratedTestFollowsErrorCount ==
  LET passed == NoErrorCount(stub.results)
      made == Literals(stub.output)
  IN /\ stub.style = "qunit" =>
          TokenAfter(stub.output, "  assert.ok(")
            = IF passed THEN "true" ELSE "false"
     /\ stub.style = "mocha" =>
          /\ HasToken(stub.output, "    // SCSS Lint passed") <=> passed
          /\ HasToken(stub.output, "    throw error;") <=> ~passed
          /\ ~passed =>
               /\ TokenAfter(stub.output, "    throw error;") = "\n"
               /\ HasToken(stub.output, "    var error = new chai.AssertionError(")
               /\ HasToken(stub.output, "    error.stack = undefined;")
               /\ made.ok
               /\ made.literals[Len(made.literals)]
                    = GeneratorMessages(stub.relativePath, stub.results)

\* The mocha generator has been called with a report that has errors, and
\* the test it made throws.
GeneratedTestFollowsErrorCountWitness ==
  /\ stub.style = "mocha"
  /\ ~NoErrorCount(stub.results)
  /\ Get(stub.results, "messages").t = "array"
  /\ HasToken(stub.output, "    throw error;")

\* The texts a generator puts into string literals of the test it makes.
Inserted ==
  CASE stub.style = "qunit" ->
         {stub.relativePath, GeneratorMessages(stub.relativePath, stub.results)}
    [] stub.style = "mocha" ->
         {stub.relativePath}
         \cup (IF HasToken(stub.output, "    throw error;")
               THEN {GeneratorMessages(stub.relativePath, stub.results)}
               ELSE {})
    [] stub.style = "cli" ->
         {stub.relativePath, Dirname(stub.relativePath),
          Get(stub.results, "errors").s}
    [] OTHER -> {}

\* C15: a generated test is a source whose string literals are all closed
\* and hold no line break, and every text put into it, the path and the
\* messages, is read back from one of its literals as it was: no quote,
\* backslash or line break of a text is left without its escape.
GeneratedTestEscapesText ==
  stub.style # "none" =>
    /\ Literals(stub.output).ok
    /\ \A text \in Inserted :
         \E n \in 1..Len(Literals(stub.output).literals) :
           Contains(Literals(stub.output).literals[n], text)

(***************************************************************************)
(* shouldIgnore and the ignore patterns.                                   *)
(***************************************************************************)
\* The resolved config with its list of ignore patterns in every order.
IgnoreReordered(resolved) ==
  LET entry == Get(resolved, "files")
      ignore == Get(entry, "ignore")
      n == Len(ignore.kids)
  IN IF ignore.t # "array" THEN {resolved}
     ELSE {Put(resolved, "files",
               Put(entry, "ignore", Arr([i \in 1..n |-> ignore.kids[f[i]]]))) :
             f \in Bijections(n)}

\* C16: shouldIgnore returns true exactly when one of the ignore patterns,
\* a single glob or a list of globs, matches the path; it returns false for
\* every path when there are no patterns, and the order of a list does not
\* change what it returns.
ShouldIgnoreIffPatternMatches ==
  \A i \in LibAsked :
    \A resolved \in IgnoreReordered(files[i].destConfig) :
      ShouldIgnore(files[i].path, resolved)
        = Return(Bool(Ignored(files[i].path, files[i].destConfig)))

(***************************************************************************)
(* The resolved config of the key and of the lint.                         *)
(***************************************************************************)
\* C17: every result that lib/index.js stored under a cache key was made
\* by a lint under the resolved config the key was computed from, also
\* when the config file changes between cacheKeyProcessString and
\* processString.
CacheEntryLintedUnderKeyConfig ==
  backend = "lib" => \A l \in lints : l.used = l.keyConfig

(***************************************************************************)
(* processString and the files processed before.                           *)
(***************************************************************************)
\* What processString gives for the file when it is the first file the
\* instance processes: the this.options it reads are the options the
\* constructor was given.
ProcessedFirst(i) ==
  IF backend = "lib"
  THEN [outcome |-> LibProcessString(files[i].content, files[i].path, self.own,
                                     given),
        command |-> <<>>]
  ELSE LET cli == CliProcessString(files[i].content, files[i].path, self.own,
                                   given)
       IN [outcome |-> cli.outcome, command |-> cli.command]

\* C18: what processString returns for a file, and the lint command it
\* runs, are what they would be were the file the first one processed,
\* whatever files were processed before it.
TransformIndependentOfHistory ==
  \A i \in DOMAIN files :
    /\ i \in Processed => files[i].pkg = ProcessedFirst(i).outcome.value
    /\ files[i].command # <<>> => files[i].command = ProcessedFirst(i).command

(***************************************************************************)
(* Reports of files taken from the cache.                                  *)
(***************************************************************************)
\* The report the engine gave when the result now under the key was made.
LintedReport(l) ==
  LintText([text |-> l.content, format |-> ExtName(l.path), filename |-> l.path],
           options, Prop(self.own, LibPrototype, "config")).value

\* The report has errors or warnings.
ReportHasFindings(report) ==
  NonZero(Get(report, "errorCount")) \/ NonZero(Get(report, "warningCount"))

\* The files of this pass whose result came from the cache.
FromCache ==
  {i \in DOMAIN files :
     files[i].stage \in {"packaged", "emitted"} /\ files[i].fromCache}

\* C19: in lib/index.js every cached result keeps its report: a file whose
\* result is taken from the cache has the counts that were found when the
\* result under its key was linted, and a file whose report has an
\* errorCount or a warningCount other than 0 is handed to the reporter by
\* postProcess in the pass, after a cache hit as after a lint.
ReportedAfterHitAndMiss ==
  backend = "lib" =>
    /\ \A e \in cache : HasKey(e.value, "report")
    /\ \A i \in FromCache :
         \E l \in lints :
           /\ l.key = files[i].key
           /\ HasFindings(i) <=> ReportHasFindings(LintedReport(l))
    /\ \A i \in PostProcessed :
         HasFindings(i) =>
           \E n \in Forwarded(i) :
             reporter[n].payload = Arr(<<Get(files[i].pkg, "report")>>)

\* In a second pass a file with findings was taken from the cache and
\* handed to the reporter.
ReportedAfterHitAndMissWitness ==
  /\ backend = "lib"
  /\ pass = 2
  /\ \E i \in FromCache \cap PostProcessed :
       /\ HasFindings(i)
       /\ Forwarded(i) # {}

(***************************************************************************)
(* Construction over an input that is no tree.                             *)
(***************************************************************************)
\* C20: constructing over undefined, null or a value that is no object
\* fails with the error 'Invalid input node.', and no instance is made.
InvalidInputNodeRejected ==
  (self.state # "none" /\ node # InputTree) =>
    /\ self.state = "threw"
    /\ self.error.name = "Error"
    /\ self.error.message = <<"Invalid input node.">>

(***************************************************************************)
(* index.js: a lint that exits with code 2.                                *)
(***************************************************************************)
\* The files of the pass that processString of index.js was called for.
CliLinted == {i \in DOMAIN files : backend = "cli" /\ files[i].command # <<>>}

\* What scss-lint gave for the file: its exit code and its output.
Exec(i) ==
  ShellExec(files[i].command, InputDir \o <<"/">> \o files[i].path,
            files[i].content)

\* The diagnostics of the file: the output from its path on.
Diagnostics(i) ==
  Substring(Exec(i).stdout, IndexOf(Exec(i).stdout, files[i].path))

\* C21: processString of index.js throws exactly when scss-lint exits with
\* code 2, under every options; when it throws nothing is returned for the
\* file, nothing is post-processed, its diagnostics are not put on
\* this._errors, and what is printed when the pass ends has no line of them.
ExitCodeTwoIsFatal ==
  \A i \in CliLinted :
    /\ files[i].stage = "failed" <=> Exec(i).code = 2
    /\ Exec(i).code = 2 =>
         /\ files[i].error.message = <<"There are errors in your SCSS files">>
         /\ files[i].pkg = Undefined
         /\ files[i].post = Undefined
         /\ \A n \in 1..Len(errors) : errors[n] # Diagnostics(i)
         /\ \A n \in 1..Len(reporter) :
              ~Contains(reporter[n].payload.s, FormatLine(Diagnostics(i)))

\* A pass of index.js has ended: a file with warnings was post-processed and
\* its diagnostics printed, and the lint of the next file exited with code 2.
ExitCodeTwoIsFatalWitness ==
  /\ phase = "idle"
  /\ Len(reporter) = 1
  /\ \E i, j \in CliLinted :
       /\ Exec(i).code = 1
       /\ Contains(reporter[1].payload.s, FormatLine(Diagnostics(i)))
       /\ Exec(j).code = 2
       /\ files[j].stage = "failed"

(***************************************************************************)
(* The cache key and the boundary between content and path.                *)
(***************************************************************************)
\* C22: under the same options and resolved config, a file with another
\* content or another path than this file has another cache key: the key
\* tells where the content ends and the path begins.
CacheKeySeparatesContentAndPath ==
  \A i \in LibKeyed :
    \A c \in Contents, p \in Paths :
      (c # files[i].content \/ p # files[i].path) =>
        LibCacheKeyProcessString(c, p, options, files[i].keyConfig) # files[i].key

(***************************************************************************)
(* index.js: what is printed when a pass ends.                             *)
(***************************************************************************)
\* C23: every pass of index.js comes to its end, and when the host's build
\* settles, with every file done or with one failed, what this._errors
\* holds is printed in one call, or nothing when it holds no text; nothing
\* is printed while the pass runs, nor after its end until the next pass
\* starts.
PassFlushesOnce ==
  /\ (phase = "running") ~> (phase = "idle")
  /\ [][(phase = "running" /\ phase' = "idle") =>
          reporter' = IF Join(errors, <<"\n">>) # <<>>
                      THEN <<[by |-> "build", file |-> 0,
                              payload |-> Str(FormatOutput(Join(errors, <<"\n">>)))]>>
                      ELSE <<>>]_vars
  /\ [][phase' = "running" => reporter' = <<>>]_vars
  /\ [][(phase = "idle" /\ phase' = "idle") => reporter' = reporter]_vars

\* A pass has failed at its second file, and the diagnostics of the first
\* have been printed.
PassFlushesOnceWitness ==
  /\ backend = "cli"
  /\ phase = "idle"
  /\ \E i \in DOMAIN files : files[i].stage = "failed"
  /\ \E i \in WithErrorsText : TimesLogged(i) = 1
  /\ reporter = <<[by |-> "build", file |-> 0,
                   payload |-> Str(FormatOutput(Join(errors, <<"\n">>)))]>>
====
